---------------------------- MODULE Spec2Model ----------------------------
(*************************************************************************)
(* Machine-set orchestrator (NewVirshMachines), the virsh driver         *)
(* operations it calls, and the swarm bootstrap of createCmd.RunE, of    *)
(* testkit/cmd/create.go.                                                *)
(*                                                                       *)
(* Goroutines are processes with a program counter each:                 *)
(*   callerPc  the goroutine that called NewVirshMachines                *)
(*   pc        the creation goroutine started at line 556                *)
(*   tpc[i]    the readiness goroutine of machine i, started at line 610 *)
(*   bpc       createCmd.RunE after GetTestMachines has returned         *)
(*   dCallerPc, dGoPc  one call of Start or of Kill and its poll loop    *)
(*   cPc       one call of WaitForConverge, against a clock in ticks     *)
(* LifeSpec has the owner of a returned batch call Remove,               *)
(* RemoveAndPreserveDisk, Stop and Kill on its machines in any order.    *)
(* A send on a closed channel panics and a Go panic ends the process:    *)
(* every action is guarded by ~panicked.                                 *)
(*************************************************************************)
EXTENDS Integers, Sequences, FiniteSets, TLC

\* ---------------------------------------------------------------- bounds
\* Largest linux_count a run is started with.
MaxCount == 2
\* Random batch identifiers are drawn from 0..MaxId.
MaxId == 1
\* Largest number of ready machines a bootstrap is started over.
MaxMachines == 3
\* Longest poll interval and latest deadline, in clock ticks, and the latest
\* invocation on which a polled predicate first succeeds.
MaxInterval == 2
MaxDeadline == 4
MaxFirstOk == 3

\* Largest number of driver operations the owner of a batch calls.
MaxCalls == 3
\* Largest number of batches that clone into one image directory at a time.
MaxBatches == 2
\* Largest number of join-token rotations the cluster performs in a run.
MaxRotate == 1

VARIABLES
    \* process environment and arguments
    VirshDiskDir,     \* TRUE iff VIRSH_DISK_DIR is set (non-empty)
    baseOS,           \* TRUE iff the base image file exists (os.Stat ok)
    linuxCount,
    windowsCount,
    preserve,         \* TRUE iff PRESERVE_TEST_MACHINE is set
    \* hypervisor host
    disks,            \* names whose linked clone <name>.qcow2 exists
    domains,          \* names of defined domains
    running,          \* names of running domains
    \* creation goroutine (lines 556-642)
    pc, id, index, vm, nmachines, err, rb,
    \* readiness goroutines (lines 610-623)
    tpc, tres, wg, machineErrChan, chanClosed,
    \* caller of NewVirshMachines (lines 537-556, 643-652)
    callerPc, timerFired, ret,
    \* process-wide
    panicked,
    \* history, for stating properties
    sent,             \* outcomes in the order they were placed on machineErrChan
    removeLog,        \* <<index, error>> of every Remove that has returned
    \* createCmd.RunE after GetTestMachines (lines 44-97)
    noInit,           \* the --no-swarm flag
    bpc, worker,      \* position in RunE; index of the machine being joined
    swarmToken,       \* swarmInfo.JoinTokens.Worker as fetched at line 68
    remoteAddr,       \* info.Swarm.RemoteManagers[0].Addr as fetched at line 72
    berr,             \* the error RunE returns
    inflight,         \* engine API calls issued and not yet returned
    \* the swarm, as the engines see it
    clusterToken,     \* the worker join token in force (0: no swarm yet)
    managerAddr,      \* the address the swarm's manager is reached at
    members,          \* indexes of the machines that are part of the swarm
    \* history
    trace,            \* engine API calls and their returns, in order
    \* WaitForConverge (called at lines 163, 264, 311, 431)
    cInterval,        \* the poll interval, in clock ticks
    cDeadline,        \* the tick at which ctx.Done() fires
    cFirstOk,         \* the invocation on which the predicate first succeeds
    cNow,             \* ticks since the call
    cNextAt,          \* the tick of the next invocation
    cCalls,           \* invocations of the predicate so far
    cLastErr,         \* the error of the latest invocation
    cPc, cRet,        \* position in WaitForConverge; what it returned
    \* one call of Start (lines 837-894) or of Kill (lines 805-834)
    dMach,            \* the machine: MachineName, ip, internalip, dockerHost
    dRunning,         \* TRUE iff the hypervisor runs the machine's domain
    dCallerPc, dRet,  \* the calling goroutine's position; what the call returned
    dGoPc,            \* the polling goroutine's position
    dTimer,           \* TRUE once the call's timer has fired
    dCmds,            \* the virsh subcommands issued so far
    dSshAddr,         \* the address the successful `uptime` was run against
    dObserved,        \* TRUE once a virsh list that succeeded lacked the machine
    \* calls of the driver's operations by the owner of a batch
    ncalls,           \* operations called so far
    lastCall,         \* the latest: operation, machine, error, commands issued
    \* cloneDisk (lines 655-671) run by batches that share the image directory
    qDisks,           \* the clone files in the directory of the base image
    qPc, qMach, qErr, \* per batch: position in cloneDisk, its machine, its error
    qCreated          \* per name: how often qemu-img create has made that file

orchVars == <<VirshDiskDir, baseOS, linuxCount, windowsCount, preserve,
              disks, domains, running, pc, id, index, vm, nmachines, err, rb,
              tpc, tres, wg, machineErrChan, chanClosed,
              callerPc, timerFired, ret, panicked, sent, removeLog>>

bootVars == <<noInit, bpc, worker, swarmToken, remoteAddr, berr, inflight,
              clusterToken, managerAddr, members, trace>>

convVars == <<cInterval, cDeadline, cFirstOk, cNow, cNextAt, cCalls, cLastErr,
              cPc, cRet>>

drvVars == <<dMach, dRunning, dCallerPc, dRet, dGoPc, dTimer, dCmds, dSshAddr,
             dObserved>>

lifeVars == <<ncalls, lastCall>>

cloneVars == <<qDisks, qPc, qMach, qErr, qCreated>>

auxVars == <<convVars, drvVars, lifeVars, cloneVars>>

vars == <<orchVars, bootVars, auxVars>>

\* ----------------------------------------------------------------- values
NoErr == [kind |-> "nil", idx |-> -1]
Err(kind, i) == [kind |-> kind, idx |-> i]

NoName == [id |-> -1, index |-> -1]

\* A name that leaves the index out.
MachineNameOfNoIndex(batch, i) == [id |-> batch, index |-> 0]

\* fmt.Sprintf("%s-%X-%d", NamePrefix, id, index)
MachineNameOf(batch, i) == [id |-> batch, index |-> i]

NoIP == 0
\* the address the hypervisor's DHCP hands to a domain
AddrOf(name) == 10 + name.index

Indexes == 0 .. (linuxCount - 1)

NewMachine(batch, i) ==
    [MachineName |-> MachineNameOf(batch, i), DiskPath |-> NoName, ip |-> NoIP]
BlankMachine == [MachineName |-> NoName, DiskPath |-> NoName, ip |-> NoIP]


\* ------------------------------------------------------ hypervisor driver
\* A host is [disks, domains, running]; every driver operation returns the
\* host and machine it leaves behind together with its error.
Host(d, dm, r) == [disks |-> d, domains |-> dm, running |-> r]

\* cloneDisk: the os.Stat guard, then qemu-img create (cmdOk = exit status 0).
cloneDisk(m, h, cmdOk) ==
    IF m.MachineName \in h.disks
    THEN [err |-> Err("clone", m.MachineName.index), m |-> m, h |-> h]
    ELSE IF ~cmdOk
    THEN [err |-> Err("clone", m.MachineName.index), m |-> m, h |-> h]
    ELSE [err |-> NoErr,
          m |-> [m EXCEPT !.DiskPath = m.MachineName],
          h |-> [h EXCEPT !.disks = @ \cup {m.MachineName}]]

\* define: render and write the descriptor (fileOk), virsh define (cmdOk);
\* the descriptor file is removed on every path and leaves no state behind.
define(m, h, fileOk, cmdOk) ==
    IF ~fileOk \/ ~cmdOk
    THEN [err |-> Err("define", m.MachineName.index), m |-> m, h |-> h]
    ELSE [err |-> NoErr, m |-> m,
          h |-> [h EXCEPT !.domains = @ \cup {m.MachineName}]]

\* Start: virsh start, then the address poll and the ssh poll raced against
\* the 60 s timer.
\*   "startFail"    virsh start exits non-zero
\*   "ready"        both polls finished before the timer
\*   "timeoutNoIP"  the timer fired during the address poll
\*   "timeoutIP"    the timer fired during the ssh poll
StartOutcomes == {"startFail", "ready", "timeoutNoIP", "timeoutIP"}
Start(m, h, o) ==
    IF o = "startFail"
    THEN [err |-> Err("start", m.MachineName.index), m |-> m, h |-> h]
    ELSE [err |-> IF o = "ready" THEN NoErr
                  ELSE Err("starttimeout", m.MachineName.index),
          m |-> IF o = "timeoutNoIP" THEN m
                ELSE [m EXCEPT !.ip = AddrOf(m.MachineName)],
          h |-> [h EXCEPT !.running = @ \cup {m.MachineName}]]

\* getActiveMachines: a failed list query is logged and yields no names.
getActiveMachines(h, listOk) == IF listOk THEN h.running ELSE {}

IsRunning(m, h, listOk) == m.MachineName \in getActiveMachines(h, listOk)

\* Kill: virsh destroy, then poll IsRunning every 500 ms against a 1 min timer.
\*   "destroyFail"  virsh destroy exits non-zero
\*   "stopped"      a poll saw the domain gone from the running list
\*   "listFail"     a poll's list query failed and was read as "not running"
\*   "timeout"      the timer fired while the domain was still listed
KillOutcomes == {"destroyFail", "stopped", "listFail", "timeout"}
Kill(m, h, o) ==
    IF o = "destroyFail" \/ m.MachineName \notin h.running
    THEN [err |-> Err("kill", m.MachineName.index), h |-> h]
    ELSE IF o = "stopped"
    THEN [err |-> NoErr, h |-> [h EXCEPT !.running = @ \ {m.MachineName}]]
    ELSE IF o = "listFail"
    THEN [err |-> NoErr, h |-> h]
    ELSE [err |-> Err("killtimeout", m.MachineName.index), h |-> h]

\* The commands a Kill with outcome o runs: virsh destroy and, unless that
\* failed, the virsh list of its polls.
KillCmds(o) == IF o = "destroyFail" THEN <<"destroy">> ELSE <<"destroy", "list">>

\* Remove: the PRESERVE_TEST_MACHINE override, Kill if running (its error is
\* dropped), virsh undefine --storage, os.Remove of the disk, name cleared.
\* in = [listOk, kill, undefOk]: the outcomes of the commands it runs.
\* cmds: the commands it has run, in order.
RemoveInputs == [listOk : BOOLEAN, kill : KillOutcomes, undefOk : BOOLEAN]

\* A Remove that looks at no override.
RemoveNoOverride(m, h, keep, in) ==
    LET saw == IsRunning(m, h, in.listOk)
        h1 == IF saw THEN Kill(m, h, in.kill).h ELSE h
        c1 == <<"list">> \o (IF saw THEN KillCmds(in.kill) ELSE <<>>)
                        \o <<"undefine --storage">>
    IN  IF ~in.undefOk \/ m.MachineName \notin h1.domains
        THEN [err |-> Err("remove", m.MachineName.index), m |-> m, h |-> h1,
              cmds |-> c1]
        ELSE [err |-> NoErr,
              m |-> [m EXCEPT !.MachineName = NoName],
              h |-> [h1 EXCEPT !.domains = @ \ {m.MachineName},
                               !.disks = @ \ {m.DiskPath}],
              cmds |-> c1 \o <<"rm">>]

\* A Remove that clears the name before it looks at what virsh undefine
\* returned.
RemoveTombstoneFirst(m, h, keep, in) ==
    IF keep
    THEN [err |-> NoErr, m |-> m, h |-> h, cmds |-> <<>>]
    ELSE LET saw == IsRunning(m, h, in.listOk)
             h1 == IF saw THEN Kill(m, h, in.kill).h ELSE h
             c1 == <<"list">> \o (IF saw THEN KillCmds(in.kill) ELSE <<>>)
                             \o <<"undefine --storage">>
         IN  IF ~in.undefOk \/ m.MachineName \notin h1.domains
             THEN [err |-> Err("remove", m.MachineName.index),
                   m |-> [m EXCEPT !.MachineName = NoName], h |-> h1,
                   cmds |-> c1]
             ELSE [err |-> NoErr,
                   m |-> [m EXCEPT !.MachineName = NoName],
                   h |-> [h1 EXCEPT !.domains = @ \ {m.MachineName},
                                    !.disks = @ \ {m.DiskPath}],
                   cmds |-> c1 \o <<"rm">>]

\* A Remove that deletes the disk file before it looks at what virsh
\* undefine returned.
RemoveDiskFirst(m, h, keep, in) ==
    IF keep
    THEN [err |-> NoErr, m |-> m, h |-> h, cmds |-> <<>>]
    ELSE LET saw == IsRunning(m, h, in.listOk)
             h1 == IF saw THEN Kill(m, h, in.kill).h ELSE h
             c1 == <<"list">> \o (IF saw THEN KillCmds(in.kill) ELSE <<>>)
                             \o <<"undefine --storage", "rm">>
         IN  IF ~in.undefOk \/ m.MachineName \notin h1.domains
             THEN [err |-> Err("remove", m.MachineName.index), m |-> m,
                   h |-> [h1 EXCEPT !.disks = @ \ {m.DiskPath}],
                   cmds |-> c1]
             ELSE [err |-> NoErr,
                   m |-> [m EXCEPT !.MachineName = NoName],
                   h |-> [h1 EXCEPT !.domains = @ \ {m.MachineName},
                                    !.disks = @ \ {m.DiskPath}],
                   cmds |-> c1]

Remove(m, h, keep, in) ==
    IF keep
    THEN [err |-> NoErr, m |-> m, h |-> h, cmds |-> <<>>]
    ELSE LET saw == IsRunning(m, h, in.listOk)
             h1 == IF saw THEN Kill(m, h, in.kill).h ELSE h
             c1 == <<"list">> \o (IF saw THEN KillCmds(in.kill) ELSE <<>>)
                             \o <<"undefine --storage">>
         IN  IF ~in.undefOk \/ m.MachineName \notin h1.domains
             THEN [err |-> Err("remove", m.MachineName.index), m |-> m, h |-> h1,
                   cmds |-> c1]
             ELSE [err |-> NoErr,
                   m |-> [m EXCEPT !.MachineName = NoName],
                   h |-> [h1 EXCEPT !.domains = @ \ {m.MachineName},
                                    !.disks = @ \ {m.DiskPath}],
                   cmds |-> c1 \o <<"rm">>]

\* Stop: virsh shutdown, which fails on a domain that is not running and
\* otherwise returns at once, with the guest down or still shutting down.
StopOutcomes == {"shutdownFail", "stopped", "pending"}
Stop(m, h, o) ==
    IF o = "shutdownFail" \/ m.MachineName \notin h.running
    THEN [err |-> Err("stop", m.MachineName.index), h |-> h]
    ELSE IF o = "stopped"
    THEN [err |-> NoErr, h |-> [h EXCEPT !.running = @ \ {m.MachineName}]]
    ELSE [err |-> NoErr, h |-> h]

PreserveInputs == [listOk : BOOLEAN, stop : StopOutcomes, undefOk : BOOLEAN]

\* RemoveAndPreserveDisk: the override, Stop if running (its error is
\* dropped), virsh undefine without --storage, name cleared.
RemoveAndPreserveDisk(m, h, keep, in) ==
    IF keep
    THEN [err |-> NoErr, m |-> m, h |-> h, cmds |-> <<>>]
    ELSE LET saw == IsRunning(m, h, in.listOk)
             h1 == IF saw THEN Stop(m, h, in.stop).h ELSE h
             c1 == <<"list">> \o (IF saw THEN <<"shutdown">> ELSE <<>>)
                             \o <<"undefine">>
         IN  IF ~in.undefOk \/ m.MachineName \notin h1.domains
             THEN [err |-> Err("remove", m.MachineName.index), m |-> m, h |-> h1,
                   cmds |-> c1]
             ELSE [err |-> NoErr,
                   m |-> [m EXCEPT !.MachineName = NoName],
                   h |-> [h1 EXCEPT !.domains = @ \ {m.MachineName}],
                   cmds |-> c1]


\* ------------------------------------------------- NewVirshMachines: caller
envVars == <<VirshDiskDir, baseOS, linuxCount, windowsCount, preserve>>
hostVars == <<disks, domains, running>>
workerVars == <<pc, id, index, vm, nmachines, err, rb>>
taskVars == <<tpc, tres, wg, machineErrChan, chanClosed, sent>>
callerVars == <<callerPc, timerFired, ret>>

\* Precondition check that lets a Windows count through.
PreconditionNoWindowsGuard(dirSet, winCount, imagePresent) ==
    IF ~dirSet THEN Err("nodiskdir", -1)
    ELSE IF ~imagePresent THEN Err("nobaseimage", -1)
    ELSE NoErr

\* The three guards of lines 538-550, in the order the code tests them.
Precondition(dirSet, winCount, imagePresent) ==
    IF ~dirSet THEN Err("nodiskdir", -1)
    ELSE IF winCount # 0 THEN Err("windows", -1)
    ELSE IF ~imagePresent THEN Err("nobaseimage", -1)
    ELSE NoErr

Return(ms, e) == [machines |-> ms, err |-> e]

\* Lines 537-556: check the preconditions, then arm the timer and start the
\* creation goroutine.
CallerEntry ==
    /\ ~panicked /\ callerPc = "entry"
    /\ LET e == Precondition(VirshDiskDir, windowsCount, baseOS)
       IN  IF e # NoErr
           THEN /\ callerPc' = "returned"
                /\ ret' = Return(<<>>, e)
                /\ pc' = pc
           ELSE /\ callerPc' = "select"
                /\ ret' = ret
                /\ pc' = "begin"
    /\ UNCHANGED <<bootVars, auxVars, envVars, hostVars, id, index, vm, nmachines, err, rb,
                   taskVars, timerFired, panicked, removeLog>>

\* timer.C becomes ready (60 minutes after line 552).
TimerFire ==
    /\ ~panicked /\ callerPc = "select" /\ ~timerFired
    /\ timerFired' = TRUE
    /\ UNCHANGED <<bootVars, auxVars, envVars, hostVars, workerVars, taskVars, callerPc, ret,
                   panicked, removeLog>>

\* A timer branch that also ends the creation goroutine.
CallerTimeoutCancelling ==
    /\ ~panicked /\ callerPc = "select" /\ timerFired
    /\ callerPc' = "returned"
    /\ ret' = Return(<<>>, Err("timeout", -1))
    /\ pc' = "done"
    /\ UNCHANGED <<bootVars, auxVars, envVars, hostVars, id, index, vm, nmachines,
                   err, rb, taskVars, timerFired, panicked, removeLog>>

\* select case <-timer.C (lines 650-651).
CallerTimeout ==
    /\ ~panicked /\ callerPc = "select" /\ timerFired
    /\ callerPc' = "returned"
    /\ ret' = Return(<<>>, Err("timeout", -1))
    /\ UNCHANGED <<bootVars, auxVars, envVars, hostVars, workerVars, taskVars, timerFired,
                   panicked, removeLog>>

\* errChan is unbuffered: the send of lines 570-588 and 636 and the receive
\* of line 647 happen together.
DeliverErr ==
    /\ ~panicked /\ callerPc = "select" /\ pc = "sendErr"
    /\ callerPc' = "returned"
    /\ ret' = Return(<<>>, err)
    /\ pc' = "done"
    /\ UNCHANGED <<bootVars, auxVars, envVars, hostVars, id, index, vm, nmachines, err, rb,
                   taskVars, timerFired, panicked, removeLog>>

\* resChan is unbuffered: the send of line 640 and the receive of line 644.
\* res holds the machines in index order.
DeliverRes ==
    /\ ~panicked /\ callerPc = "select" /\ pc = "sendRes"
    /\ callerPc' = "returned"
    /\ ret' = Return([k \in 1 .. nmachines |-> k - 1], NoErr)
    /\ pc' = "done"
    /\ UNCHANGED <<bootVars, auxVars, envVars, hostVars, id, index, vm, nmachines, err, rb,
                   taskVars, timerFired, panicked, removeLog>>

\* ------------------------------------- NewVirshMachines: creation goroutine
LoopHead(i) == IF i < linuxCount THEN "clone" ELSE "fanout"

\* Line 558: draw the batch identifier.
WorkerBegin ==
    /\ ~panicked /\ pc = "begin"
    /\ \E x \in 0 .. MaxId : id' = x
    /\ index' = 0
    /\ pc' = LoopHead(0)
    /\ UNCHANGED <<bootVars, auxVars, envVars, hostVars, vm, nmachines, err, rb, taskVars,
                   callerVars, panicked, removeLog>>

\* A loop that goes on to the next step whatever the call returned.
SerialStepIgnoringError(r, next) ==
    /\ vm' = [vm EXCEPT ![index] = r.m]
    /\ disks' = r.h.disks
    /\ domains' = r.h.domains
    /\ running' = r.h.running
    /\ pc' = next /\ err' = err

\* What a step of the serial loop does with the result r of a driver call:
\* on error, send it on errChan and return; else go on to the step `next`.
SerialStep(r, next) ==
    /\ vm' = [vm EXCEPT ![index] = r.m]
    /\ disks' = r.h.disks
    /\ domains' = r.h.domains
    /\ running' = r.h.running
    /\ IF r.err # NoErr
       THEN pc' = "sendErr" /\ err' = r.err
       ELSE pc' = next /\ err' = err

\* Lines 561-572.
WorkerClone ==
    /\ ~panicked /\ pc = "clone"
    /\ \E cmdOk \in BOOLEAN :
          SerialStep(cloneDisk(NewMachine(id, index),
                               Host(disks, domains, running), cmdOk), "define")
    /\ UNCHANGED <<bootVars, auxVars, envVars, id, index, nmachines, rb, taskVars, callerVars,
                   panicked, removeLog>>

\* Lines 573-576.
WorkerDefine ==
    /\ ~panicked /\ pc = "define"
    /\ \E fileOk \in BOOLEAN, cmdOk \in BOOLEAN :
          SerialStep(define(vm[index], Host(disks, domains, running),
                            fileOk, cmdOk), "start")
    /\ UNCHANGED <<bootVars, auxVars, envVars, id, index, nmachines, rb, taskVars, callerVars,
                   panicked, removeLog>>

\* Lines 577-580.
WorkerStart ==
    /\ ~panicked /\ pc = "start"
    /\ \E o \in StartOutcomes :
          SerialStep(Start(vm[index], Host(disks, domains, running), o), "creds")
    /\ UNCHANGED <<bootVars, auxVars, envVars, id, index, nmachines, rb, taskVars, callerVars,
                   panicked, removeLog>>

\* Lines 581-602: load the key pair and the CA file, then append m.
WorkerCreds ==
    /\ ~panicked /\ pc = "creds"
    /\ \E certOk \in BOOLEAN :
          IF ~certOk
          THEN /\ pc' = "sendErr"
               /\ err' = Err("creds", index)
               /\ UNCHANGED <<index, nmachines>>
          ELSE /\ nmachines' = nmachines + 1
               /\ index' = index + 1
               /\ pc' = LoopHead(index + 1)
               /\ err' = err
    /\ UNCHANGED <<bootVars, auxVars, envVars, hostVars, id, vm, rb, taskVars, callerVars,
                   panicked, removeLog>>

\* Lines 604-625: wg.Add(1) and one goroutine per machine.
WorkerFanOut ==
    /\ ~panicked /\ pc = "fanout"
    /\ tpc' = [i \in Indexes |-> IF i < nmachines THEN "spawned" ELSE tpc[i]]
    /\ wg' = wg + nmachines
    /\ pc' = "wait"
    /\ UNCHANGED <<bootVars, auxVars, envVars, hostVars, id, index, vm, nmachines, err, rb,
                   tres, machineErrChan, chanClosed, sent,
                   callerVars, panicked, removeLog>>

\* Lines 626-627: wg.Wait() returns once the counter is zero; close.
WorkerWait ==
    /\ ~panicked /\ pc = "wait" /\ wg = 0
    /\ chanClosed' = TRUE
    /\ pc' = "range"
    /\ UNCHANGED <<bootVars, auxVars, envVars, hostVars, id, index, vm, nmachines, err, rb,
                   tpc, tres, wg, machineErrChan, sent,
                   callerVars, panicked, removeLog>>

\* Receive that hands out the newest outcome instead of the oldest.
RecvNewest(ch) == [val |-> ch[Len(ch)], rest |-> SubSeq(ch, 1, Len(ch) - 1)]

\* A receive from the buffered channel: the oldest outcome.
Recv(ch) == [val |-> Head(ch), rest |-> Tail(ch)]

\* Lines 628-631 and 639-640: one iteration of the range over the closed
\* channel; the first non-nil outcome starts the rollback (after the 10 s
\* sleep), an empty closed channel ends the loop.
WorkerRange ==
    /\ ~panicked /\ pc = "range" /\ chanClosed
    /\ IF machineErrChan = <<>>
       THEN /\ pc' = "sendRes"
            /\ UNCHANGED <<machineErrChan, err, rb>>
       ELSE LET r == Recv(machineErrChan)
            IN  /\ machineErrChan' = r.rest
                /\ IF r.val # NoErr
                   THEN pc' = "rollback" /\ err' = r.val /\ rb' = 0
                   ELSE pc' = "range" /\ err' = err /\ rb' = rb
    /\ UNCHANGED <<bootVars, auxVars, envVars, hostVars, id, index, vm, nmachines,
                   tpc, tres, wg, chanClosed, sent,
                   callerVars, panicked, removeLog>>

\* Rollback that escalates a removal error.
AfterRemoveEscalating(rerr, e) == IF rerr # NoErr THEN rerr ELSE e

\* The error the goroutine will report once Remove has returned rerr.
AfterRemove(rerr, e) == e

\* Lines 633-635: m.Remove() for the next machine of the batch; after the
\* last one, line 636.
WorkerRollback ==
    /\ ~panicked /\ pc = "rollback" /\ rb < nmachines
    /\ \E in \in RemoveInputs :
          LET r == Remove(vm[rb], Host(disks, domains, running), preserve, in)
          IN  /\ vm' = [vm EXCEPT ![rb] = r.m]
              /\ disks' = r.h.disks
              /\ domains' = r.h.domains
              /\ running' = r.h.running
              /\ removeLog' = Append(removeLog, [idx |-> rb, err |-> r.err])
              /\ err' = AfterRemove(r.err, err)
    /\ rb' = rb + 1
    /\ pc' = IF rb + 1 < nmachines THEN "rollback" ELSE "sendErr"
    /\ UNCHANGED <<bootVars, auxVars, envVars, id, index, nmachines, taskVars, callerVars, panicked>>

\* ------------------------------------ NewVirshMachines: readiness goroutines
\* A hostname failure that is reported as the machine's outcome, in place of
\* the engine verification.
TaskHostnameFatal(i) ==
    /\ ~panicked /\ tpc[i] = "spawned"
    /\ \E hostOk \in BOOLEAN :
          IF hostOk
          THEN tpc' = [tpc EXCEPT ![i] = "hostnameSet"] /\ tres' = tres
          ELSE /\ tpc' = [tpc EXCEPT ![i] = "verified"]
               /\ tres' = [tres EXCEPT ![i] = Err("hostname", i)]
    /\ UNCHANGED <<bootVars, auxVars, envVars, hostVars, workerVars, wg,
                   machineErrChan, chanClosed, sent, callerVars, panicked,
                   removeLog>>

\* Lines 611-617: set the hostname over ssh; a failure is logged and
\* otherwise forgotten.
TaskHostname(i) ==
    /\ ~panicked /\ tpc[i] = "spawned"
    /\ \E hostOk \in BOOLEAN :
          tpc' = [tpc EXCEPT ![i] = IF hostOk THEN "hostnameSet" ELSE "hostnameWarned"]
    /\ UNCHANGED <<bootVars, auxVars, envVars, hostVars, workerVars, tres, wg,
                   machineErrChan, chanClosed, sent, callerVars, panicked,
                   removeLog>>

\* The outcome a readiness goroutine reports.
Outcome(i, engineOk) == IF engineOk THEN NoErr ELSE Err("readiness", i)

\* Line 619: res := VerifyDockerEngine(m, VirshDiskDir).
TaskVerify(i) ==
    /\ ~panicked /\ tpc[i] \in {"hostnameSet", "hostnameWarned"}
    /\ \E engineOk \in BOOLEAN :
          tres' = [tres EXCEPT ![i] = Outcome(i, engineOk)]
    /\ tpc' = [tpc EXCEPT ![i] = IF tpc[i] = "hostnameWarned"
                                 THEN "verifiedWarned" ELSE "verified"]
    /\ UNCHANGED <<bootVars, auxVars, envVars, hostVars, workerVars, wg, machineErrChan,
                   chanClosed, sent, callerVars, panicked, removeLog>>

\* Line 621: wg.Done().
TaskDone(i) ==
    /\ ~panicked /\ tpc[i] \in {"verified", "verifiedWarned"}
    /\ wg' = wg - 1
    /\ tpc' = [tpc EXCEPT ![i] = "send"]
    /\ UNCHANGED <<bootVars, auxVars, envVars, hostVars, workerVars, tres,
                   machineErrChan, chanClosed, sent, callerVars, panicked,
                   removeLog>>

\* Line 622: machineErrChan <- res. The buffer holds linuxCount outcomes.
TaskSend(i) ==
    /\ ~panicked /\ tpc[i] = "send" /\ ~chanClosed
    /\ Len(machineErrChan) < linuxCount
    /\ machineErrChan' = Append(machineErrChan, tres[i])
    /\ sent' = Append(sent, tres[i])
    /\ tpc' = [tpc EXCEPT ![i] = "finished"]
    /\ UNCHANGED <<bootVars, auxVars, envVars, hostVars, workerVars, tres, wg,
                   chanClosed, callerVars, panicked, removeLog>>

\* Line 622 reached after line 627: a send on a closed channel panics, and
\* the panic ends the process.
TaskSendClosed(i) ==
    /\ ~panicked /\ tpc[i] = "send" /\ chanClosed
    /\ panicked' = TRUE
    /\ UNCHANGED <<bootVars, auxVars, envVars, hostVars, workerVars, taskVars, callerVars,
                   removeLog>>

\* --------------------------------------------- components not in use
\* No WaitForConverge call is in progress.
ConvIdle ==
    /\ cInterval = 1 /\ cDeadline = 0 /\ cFirstOk = 0
    /\ cNow = 0 /\ cNextAt = 0 /\ cCalls = 0 /\ cLastErr = NoErr
    /\ cPc = "uncalled" /\ cRet = NoErr

\* The port of the engine endpoint (line 862).
DockerPort == 2376
\* fmt.Sprintf("tcp://%s:2376", ip); the zero value of dockerHost.
Endpoint(ip) == [host |-> ip, port |-> DockerPort]
NoEndpoint == [host |-> NoIP, port |-> 0]

\* A VirshMachine as NewVirshMachines builds it before cloneDisk.
DriverMachine(name) ==
    [MachineName |-> name, ip |-> NoIP, internalip |-> NoIP,
     dockerHost |-> NoEndpoint]

\* No Start or Kill call is being followed step by step.
DrvIdle ==
    /\ dMach = DriverMachine(NoName)
    /\ dRunning = FALSE /\ dCallerPc = "uncalled" /\ dRet = NoErr
    /\ dGoPc = "none" /\ dTimer = FALSE /\ dCmds = {} /\ dSshAddr = NoIP
    /\ dObserved = FALSE

NoCall ==
    [op |-> "none", idx |-> -1, saw |-> FALSE, err |-> NoErr, cmds |-> <<>>,
     failed |-> {}, inner |-> NoErr]

\* The owner of the batch has called nothing yet.
LifeIdle == ncalls = 0 /\ lastCall = NoCall

\* No cloneDisk call is being followed step by step.
CloneIdle ==
    /\ qDisks = {} /\ qPc = <<>> /\ qMach = <<>> /\ qErr = <<>>
    /\ qCreated = <<>>

AuxIdle == ConvIdle /\ DrvIdle /\ LifeIdle /\ CloneIdle

\* ------------------------------------------------------------ specification
Init ==
    /\ VirshDiskDir \in BOOLEAN
    /\ baseOS \in BOOLEAN
    /\ linuxCount \in 1 .. MaxCount
    /\ windowsCount \in 0 .. 1
    /\ preserve \in BOOLEAN
    /\ disks = {} /\ domains = {} /\ running = {}
    /\ pc = "idle" /\ id = -1 /\ index = 0 /\ nmachines = 0
    /\ vm = [i \in Indexes |-> BlankMachine]
    /\ err = NoErr /\ rb = 0
    /\ tpc = [i \in Indexes |-> "idle"]
    /\ tres = [i \in Indexes |-> NoErr]
    /\ wg = 0 /\ machineErrChan = <<>> /\ chanClosed = FALSE
    /\ callerPc = "entry" /\ timerFired = FALSE
    /\ ret = Return(<<>>, NoErr)
    /\ panicked = FALSE
    /\ sent = <<>> /\ removeLog = <<>>
    /\ noInit = FALSE /\ bpc = "unstarted" /\ worker = 1
    /\ swarmToken = 0 /\ remoteAddr = NoIP /\ berr = NoErr
    /\ inflight = {} /\ clusterToken = 0 /\ managerAddr = NoIP
    /\ members = {} /\ trace = <<>>
    /\ AuxIdle

Next ==
    \/ CallerEntry
    \/ TimerFire
    \/ CallerTimeout
    \/ DeliverErr
    \/ DeliverRes
    \/ WorkerBegin
    \/ WorkerClone
    \/ WorkerDefine
    \/ WorkerStart
    \/ WorkerCreds
    \/ WorkerFanOut
    \/ WorkerWait
    \/ WorkerRange
    \/ WorkerRollback
    \/ \E i \in Indexes : TaskHostname(i)
    \/ \E i \in Indexes : TaskVerify(i)
    \/ \E i \in Indexes : TaskDone(i)
    \/ \E i \in Indexes : TaskSend(i)
    \/ \E i \in Indexes : TaskSendClosed(i)

Spec == Init /\ [][Next]_vars


\* ------------------------------------------------- createCmd.RunE: bootstrap
\* machines := append(lm, wm...): the machines NewVirshMachines returned.
NumMachines == Len(ret.machines)
Machine(j) == vm[ret.machines[j + 1]]

\* An engine API call or its return, as it appears in the history.
Ev(op, ph, m, token, addr, adv) ==
    [op |-> op, ph |-> ph, m |-> m, token |-> token, addr |-> addr, adv |-> adv]
Returns(op, ph, m) == Ev(op, ph, m, 0, NoIP, NoIP)

\* Abort that also takes the machines out of the swarm again.
AbortLeaving(e) ==
    /\ bpc' = "failed"
    /\ berr' = e
    /\ members' = {}
    /\ worker' = worker

\* return err: RunE ends with the error; nothing else is done.
Abort(e) ==
    /\ bpc' = "failed"
    /\ berr' = e
    /\ members' = members
    /\ worker' = worker

\* Lines 76 and 90: the loop over machines[1:].
JoinLoopHead(w) == IF w < NumMachines THEN "join" ELSE "complete"

\* Lines 40-59: GetTestMachines has returned the machines; with --no-swarm
\* the bootstrap is skipped, else get the leader's client and internal IP.
BootBegin ==
    /\ ~panicked /\ bpc = "unstarted"
    /\ callerPc = "returned" /\ ret.err = NoErr
    /\ IF noInit
       THEN /\ bpc' = "skipped"
            /\ UNCHANGED <<berr, members, worker, trace>>
       ELSE \E cliOk \in BOOLEAN :
              IF cliOk
              THEN /\ bpc' = "init"
                   /\ UNCHANGED <<berr, members, worker, trace>>
              ELSE /\ Abort(Err("client", 0))
                   /\ trace' = Append(trace, Returns("client", "fail", 0))
    /\ UNCHANGED <<orchVars, auxVars, noInit, swarmToken, remoteAddr, inflight,
                   clusterToken, managerAddr>>

\* Lines 60-64: issue SwarmInit on machines[0], advertising its internal IP.
BootInitCall ==
    /\ ~panicked /\ bpc = "init"
    /\ LET c == Ev("init", "call", 0, 0, NoIP, Machine(0).ip)
       IN  /\ inflight' = inflight \cup {c}
           /\ trace' = Append(trace, c)
    /\ bpc' = "initWait"
    /\ UNCHANGED <<orchVars, auxVars, noInit, worker, swarmToken, remoteAddr, berr,
                   clusterToken, managerAddr, members>>

\* Lines 61-67: SwarmInit returns.
BootInitReturn ==
    /\ ~panicked /\ bpc = "initWait"
    /\ \E c \in inflight, ok \in BOOLEAN :
          /\ c.op = "init"
          /\ inflight' = inflight \ {c}
          /\ IF ok
             THEN /\ clusterToken' = 1
                  /\ managerAddr' = c.adv
                  /\ members' = {c.m}
                  /\ bpc' = "inspect"
                  /\ trace' = Append(trace, Returns("init", "ok", c.m))
                  /\ UNCHANGED <<berr, worker>>
             ELSE /\ Abort(Err("init", c.m))
                  /\ trace' = Append(trace, Returns("init", "fail", c.m))
                  /\ UNCHANGED <<clusterToken, managerAddr>>
    /\ UNCHANGED <<orchVars, auxVars, noInit, swarmToken, remoteAddr>>

\* Lines 68-71: SwarmInspect, keeping the worker join token.
BootInspect ==
    /\ ~panicked /\ bpc = "inspect"
    /\ \E ok \in BOOLEAN :
          IF ok
          THEN /\ swarmToken' = clusterToken
               /\ bpc' = "info"
               /\ trace' = Append(trace, Ev("inspect", "ok", 0, clusterToken, NoIP, NoIP))
               /\ UNCHANGED <<berr, members, worker>>
          ELSE /\ Abort(Err("inspect", 0))
               /\ trace' = Append(trace, Returns("inspect", "fail", 0))
               /\ swarmToken' = swarmToken
    /\ UNCHANGED <<orchVars, auxVars, noInit, remoteAddr, inflight, clusterToken,
                   managerAddr>>

\* Lines 72-75: Info, keeping the first remote manager's address.
BootInfo ==
    /\ ~panicked /\ bpc = "info"
    /\ \E ok \in BOOLEAN :
          IF ok
          THEN /\ remoteAddr' = managerAddr
               /\ bpc' = JoinLoopHead(worker)
               /\ trace' = Append(trace, Ev("info", "ok", 0, 0, managerAddr, NoIP))
               /\ UNCHANGED <<berr, members, worker>>
          ELSE /\ Abort(Err("info", 0))
               /\ trace' = Append(trace, Returns("info", "fail", 0))
               /\ remoteAddr' = remoteAddr
    /\ UNCHANGED <<orchVars, auxVars, noInit, swarmToken, inflight, clusterToken,
                   managerAddr>>

\* Join request built from the token in force when the join is issued.
JoinRequestRefetched(tokenSnap, addrSnap, tokenNow, addrNow) ==
    [token |-> tokenNow, addr |-> addrNow]

\* Lines 82-86: the join request carries the token and address fetched at
\* lines 68 and 72.
JoinRequest(tokenSnap, addrSnap, tokenNow, addrNow) ==
    [token |-> tokenSnap, addr |-> addrSnap]

\* Join issued without waiting for its return.
AfterJoinIssuedAsync(w) == [bpc |-> JoinLoopHead(w + 1), worker |-> w + 1]

\* Line 82: SwarmJoin is a blocking call; RunE waits for it.
AfterJoinIssued(w) == [bpc |-> "joinWait", worker |-> w]

\* Lines 77-86: get the worker's client and issue SwarmJoin.
BootJoinCall ==
    /\ ~panicked /\ bpc = "join"
    /\ \E cliOk \in BOOLEAN :
          IF cliOk
          THEN LET req == JoinRequest(swarmToken, remoteAddr,
                                      clusterToken, managerAddr)
                   c == Ev("join", "call", worker, req.token, req.addr, NoIP)
                   n == AfterJoinIssued(worker)
               IN  /\ inflight' = inflight \cup {c}
                   /\ trace' = Append(trace, c)
                   /\ bpc' = n.bpc
                   /\ worker' = n.worker
                   /\ UNCHANGED <<berr, members>>
          ELSE /\ Abort(Err("client", worker))
               /\ trace' = Append(trace, Returns("client", "fail", worker))
               /\ inflight' = inflight
    /\ UNCHANGED <<orchVars, auxVars, noInit, swarmToken, remoteAddr, clusterToken,
                   managerAddr>>

\* Lines 82-90: SwarmJoin returns; the swarm admits a worker only on the
\* token in force and the manager's address.
BootJoinReturn ==
    /\ ~panicked
    /\ \E c \in inflight, ok \in BOOLEAN :
          /\ c.op = "join"
          /\ inflight' = inflight \ {c}
          /\ IF ok /\ c.token = clusterToken /\ c.addr = managerAddr
             THEN /\ members' = members \cup {c.m}
                  /\ trace' = Append(trace, Returns("join", "ok", c.m))
                  /\ IF bpc = "joinWait" /\ worker = c.m
                     THEN worker' = worker + 1 /\ bpc' = JoinLoopHead(worker + 1)
                     ELSE worker' = worker /\ bpc' = bpc
                  /\ berr' = berr
             ELSE /\ Abort(Err("join", c.m))
                  /\ trace' = Append(trace, Returns("join", "fail", c.m))
    /\ UNCHANGED <<orchVars, auxVars, noInit, swarmToken, remoteAddr, clusterToken,
                   managerAddr>>

\* The swarm rotates its worker join token (not an act of RunE).
RotateToken ==
    /\ ~panicked /\ bpc \in {"inspect", "info", "join", "joinWait"}
    /\ clusterToken \in 1 .. MaxRotate
    /\ clusterToken' = clusterToken + 1
    /\ UNCHANGED <<orchVars, auxVars, noInit, bpc, worker, swarmToken, remoteAddr,
                   berr, inflight, managerAddr, members, trace>>

\* The state NewVirshMachines leaves when it returns a verified batch.
BootInit ==
    /\ VirshDiskDir = TRUE /\ baseOS = TRUE /\ windowsCount = 0
    /\ preserve \in BOOLEAN
    /\ linuxCount \in 1 .. MaxMachines
    /\ id \in 0 .. MaxId
    /\ vm = [i \in Indexes |->
               [MachineName |-> MachineNameOf(id, i),
                DiskPath |-> MachineNameOf(id, i),
                ip |-> AddrOf(MachineNameOf(id, i))]]
    /\ disks = {MachineNameOf(id, i) : i \in Indexes}
    /\ domains = disks /\ running = disks
    /\ pc = "done" /\ index = linuxCount /\ nmachines = linuxCount
    /\ err = NoErr /\ rb = 0
    /\ tpc = [i \in Indexes |-> "finished"]
    /\ tres = [i \in Indexes |-> NoErr]
    /\ wg = 0 /\ machineErrChan = <<>> /\ chanClosed = TRUE
    /\ callerPc = "returned" /\ timerFired = FALSE
    /\ ret = Return([j \in 1 .. linuxCount |-> j - 1], NoErr)
    /\ panicked = FALSE
    /\ sent = [j \in 1 .. linuxCount |-> NoErr] /\ removeLog = <<>>
    /\ noInit \in BOOLEAN /\ bpc = "unstarted" /\ worker = 1
    /\ swarmToken = 0 /\ remoteAddr = NoIP /\ berr = NoErr
    /\ inflight = {} /\ clusterToken = 0 /\ managerAddr = NoIP
    /\ members = {} /\ trace = <<>>
    /\ AuxIdle

BootNext ==
    \/ BootBegin
    \/ BootInitCall
    \/ BootInitReturn
    \/ BootInspect
    \/ BootInfo
    \/ BootJoinCall
    \/ BootJoinReturn
    \/ RotateToken

BootSpec == BootInit /\ [][BootNext]_vars

\* ------------------------------------------------------- WaitForConverge
\* A batch of n machines named after identifier b that NewVirshMachines has
\* returned, and createCmd.RunE not yet run over it.
ReadyBatch(n, b, keep) ==
    /\ VirshDiskDir = TRUE /\ baseOS = TRUE /\ windowsCount = 0
    /\ preserve = keep /\ linuxCount = n /\ id = b
    /\ vm = [i \in Indexes |->
               [MachineName |-> MachineNameOf(id, i),
                DiskPath |-> MachineNameOf(id, i),
                ip |-> AddrOf(MachineNameOf(id, i))]]
    /\ disks = {MachineNameOf(id, i) : i \in Indexes}
    /\ domains = disks /\ running = disks
    /\ pc = "done" /\ index = linuxCount /\ nmachines = linuxCount
    /\ err = NoErr /\ rb = 0
    /\ tpc = [i \in Indexes |-> "finished"]
    /\ tres = [i \in Indexes |-> NoErr]
    /\ wg = 0 /\ machineErrChan = <<>> /\ chanClosed = TRUE
    /\ callerPc = "returned" /\ timerFired = FALSE
    /\ ret = Return([j \in 1 .. linuxCount |-> j - 1], NoErr)
    /\ panicked = FALSE
    /\ sent = [j \in 1 .. linuxCount |-> NoErr] /\ removeLog = <<>>
BootIdle ==
    /\ noInit = FALSE /\ bpc = "unstarted" /\ worker = 1
    /\ swarmToken = 0 /\ remoteAddr = NoIP /\ berr = NoErr
    /\ inflight = {} /\ clusterToken = 0 /\ managerAddr = NoIP
    /\ members = {} /\ trace = <<>>

\* The predicate handed to WaitForConverge: its n-th invocation fails until
\* the cFirstOk-th (never, when cFirstOk = 0).
Predicate(n) ==
    IF cFirstOk # 0 /\ n >= cFirstOk THEN NoErr ELSE Err("notconverged", n)

\* A deadline signal that is seen one tick late.
DeadlineFiredLate(now, deadline) == now > deadline

\* ctx.Done() is readable from the tick of the deadline (or of cancel()) on.
DeadlineFired(now, deadline) == now >= deadline

\* An invocation of the predicate: nil ends the wait with success, an error
\* is kept and the next invocation is one interval later.
ConvPoll ==
    /\ cPc = "poll" /\ ~DeadlineFired(cNow, cDeadline)
    /\ cCalls' = cCalls + 1
    /\ IF Predicate(cCalls + 1) = NoErr
       THEN /\ cPc' = "returned" /\ cRet' = NoErr
            /\ UNCHANGED <<cLastErr, cNextAt>>
       ELSE /\ cPc' = "wait" /\ cLastErr' = Predicate(cCalls + 1)
            /\ cNextAt' = cNow + cInterval
            /\ cRet' = cRet
    /\ UNCHANGED <<orchVars, bootVars, cloneVars, drvVars, lifeVars, cInterval, cDeadline, cFirstOk, cNow>>

\* A tick of the clock while the interval runs.
ConvTick ==
    /\ cPc = "wait" /\ cNow < cNextAt /\ ~DeadlineFired(cNow, cDeadline)
    /\ cNow' = cNow + 1
    /\ UNCHANGED <<orchVars, bootVars, cloneVars, drvVars, lifeVars, cInterval, cDeadline, cFirstOk, cNextAt,
                   cCalls, cLastErr, cPc, cRet>>

\* The interval has run out.
ConvWake ==
    /\ cPc = "wait" /\ cNow = cNextAt /\ ~DeadlineFired(cNow, cDeadline)
    /\ cPc' = "poll"
    /\ UNCHANGED <<orchVars, bootVars, cloneVars, drvVars, lifeVars, cInterval, cDeadline, cFirstOk, cNow,
                   cNextAt, cCalls, cLastErr, cRet>>

\* The deadline signal has fired: return the cancellation error or the last
\* predicate error.
ConvDeadline ==
    /\ cPc \in {"poll", "wait"} /\ DeadlineFired(cNow, cDeadline)
    /\ cPc' = "returned"
    /\ cRet' \in {Err("cancelled", cCalls)} \cup ({cLastErr} \ {NoErr})
    /\ UNCHANGED <<orchVars, bootVars, cloneVars, drvVars, lifeVars, cInterval, cDeadline, cFirstOk, cNow,
                   cNextAt, cCalls, cLastErr>>

ConvInit ==
    /\ ReadyBatch(1, 0, FALSE) /\ BootIdle /\ DrvIdle /\ LifeIdle /\ CloneIdle
    /\ cInterval \in 1 .. MaxInterval
    /\ cDeadline \in 0 .. MaxDeadline
    /\ cFirstOk \in 0 .. MaxFirstOk
    /\ cNow = 0 /\ cNextAt = 0 /\ cCalls = 0 /\ cLastErr = NoErr
    /\ cPc = "poll" /\ cRet = NoErr

ConvNext == ConvPoll \/ ConvTick \/ ConvWake \/ ConvDeadline

ConvSpec == ConvInit /\ [][ConvNext]_vars

\* ------------------------------------------------ Start, step by step
\* The addresses the network may lease to a machine.
Leases(name) == {AddrOf(name), AddrOf(name) + MaxCount}

\* What `virsh -q domifaddr` can print: the command fails, prints nothing,
\* prints an ipv6 line first, or prints an ipv4 line with a leased address
\* first.
AddrReports(name) ==
    {[kind |-> k, addr |-> NoIP] : k \in {"fail", "none", "v6first"}}
       \cup {[kind |-> "v4first", addr |-> a] : a \in Leases(name)}

\* ipRegex.FindStringSubmatch(lines[0]), lines 851-857: the address of an
\* ipv4 first line, nothing otherwise.
ParseIPv4(report) == IF report.kind = "v4first" THEN report.addr ELSE NoIP

\* Lines 838-845: virsh start; on failure return its error.
StartCall ==
    /\ dCallerPc = "start"
    /\ dCmds' = dCmds \cup {"start"}
    /\ \E cmdOk \in BOOLEAN :
          IF cmdOk
          THEN /\ dRunning' = TRUE
               /\ dCallerPc' = "select" /\ dGoPc' = "addr" /\ dRet' = dRet
          ELSE /\ dCallerPc' = "returned" /\ dRet' = Err("start", 0)
               /\ UNCHANGED <<dRunning, dGoPc>>
    /\ UNCHANGED <<orchVars, bootVars, cloneVars, convVars, lifeVars, dMach, dTimer,
                   dSshAddr, dObserved>>

\* Lines 848-866: one round of the address loop; m.ip is set on a match.
StartPollAddr ==
    /\ dGoPc = "addr"
    /\ dCmds' = dCmds \cup {"domifaddr"}
    /\ \E report \in AddrReports(dMach.MachineName) :
          LET ip == ParseIPv4(report)
          IN  IF ip # NoIP
              THEN dMach' = [dMach EXCEPT !.ip = ip] /\ dGoPc' = "internalip"
              ELSE UNCHANGED <<dMach, dGoPc>>
    /\ UNCHANGED <<orchVars, bootVars, cloneVars, convVars, lifeVars, dRunning, dCallerPc,
                   dRet, dTimer, dSshAddr, dObserved>>

\* An internal address taken from the machine's first lease, whatever the
\* report said.
StartSetInternalFromLease ==
    /\ dGoPc = "internalip"
    /\ dMach' = [dMach EXCEPT !.internalip = AddrOf(dMach.MachineName)]
    /\ dGoPc' = "dockerHost"
    /\ UNCHANGED <<orchVars, bootVars, cloneVars, convVars, lifeVars, dRunning,
                   dCallerPc, dRet, dTimer, dCmds, dSshAddr, dObserved>>

\* Line 861.
StartSetInternal ==
    /\ dGoPc = "internalip"
    /\ dMach' = [dMach EXCEPT !.internalip = dMach.ip]
    /\ dGoPc' = "dockerHost"
    /\ UNCHANGED <<orchVars, bootVars, cloneVars, convVars, lifeVars, dRunning, dCallerPc,
                   dRet, dTimer, dCmds, dSshAddr, dObserved>>

\* Line 862.
StartSetHost ==
    /\ dGoPc = "dockerHost"
    /\ dMach' = [dMach EXCEPT !.dockerHost = Endpoint(dMach.ip)]
    /\ dGoPc' = "uptime"
    /\ UNCHANGED <<orchVars, bootVars, cloneVars, convVars, lifeVars, dRunning, dCallerPc,
                   dRet, dTimer, dCmds, dSshAddr, dObserved>>

\* The address loop falls through to the send whatever `uptime` returned.
StartPollSSHUnchecked ==
    /\ dGoPc = "uptime"
    /\ dCmds' = dCmds \cup {"ssh uptime"}
    /\ \E sshOk \in BOOLEAN :
          /\ dGoPc' = "send"
          /\ dSshAddr' = IF sshOk THEN dMach.ip ELSE dSshAddr
    /\ UNCHANGED <<orchVars, bootVars, cloneVars, convVars, lifeVars, dMach, dRunning,
                   dCallerPc, dRet, dTimer, dObserved>>

\* Lines 871-880: one round of the `uptime` loop against m.ip.
StartPollSSH ==
    /\ dGoPc = "uptime"
    /\ dCmds' = dCmds \cup {"ssh uptime"}
    /\ \E sshOk \in BOOLEAN :
          IF sshOk
          THEN dGoPc' = "send" /\ dSshAddr' = dMach.ip
          ELSE UNCHANGED <<dGoPc, dSshAddr>>
    /\ UNCHANGED <<orchVars, bootVars, cloneVars, convVars, lifeVars, dMach, dRunning,
                   dCallerPc, dRet, dTimer, dObserved>>

\* Lines 882 and 887-888: resChan is unbuffered, so the send happens with
\* the caller's receive.
StartSend ==
    /\ dGoPc = "send" /\ dCallerPc = "select"
    /\ dGoPc' = "exited"
    /\ dCallerPc' = "returned" /\ dRet' = NoErr
    /\ UNCHANGED <<orchVars, bootVars, cloneVars, convVars, lifeVars, dMach, dRunning,
                   dTimer, dCmds, dSshAddr, dObserved>>

\* Line 885: the 60 s timer fires.
StartTimerFire ==
    /\ dCallerPc = "select" /\ ~dTimer
    /\ dTimer' = TRUE
    /\ UNCHANGED <<orchVars, bootVars, cloneVars, convVars, lifeVars, dMach, dRunning,
                   dCallerPc, dRet, dGoPc, dCmds, dSshAddr, dObserved>>

\* Lines 889-890.
StartTimeout ==
    /\ dCallerPc = "select" /\ dTimer
    /\ dCallerPc' = "returned" /\ dRet' = Err("starttimeout", 0)
    /\ UNCHANGED <<orchVars, bootVars, cloneVars, convVars, lifeVars, dMach, dRunning,
                   dGoPc, dTimer, dCmds, dSshAddr, dObserved>>

\* A machine that was cloned and defined and is about to be started.
StartInit ==
    /\ ReadyBatch(1, 0, FALSE) /\ BootIdle /\ ConvIdle /\ LifeIdle /\ CloneIdle
    /\ \E b \in 0 .. MaxId, i \in 0 .. MaxCount - 1 :
          dMach = DriverMachine(MachineNameOf(b, i))
    /\ dRunning = FALSE /\ dCallerPc = "start" /\ dRet = NoErr
    /\ dGoPc = "none" /\ dTimer = FALSE /\ dCmds = {} /\ dSshAddr = NoIP
    /\ dObserved = FALSE

StartNext ==
    \/ StartCall
    \/ StartPollAddr
    \/ StartSetInternal
    \/ StartSetHost
    \/ StartPollSSH
    \/ StartSend
    \/ StartTimerFire
    \/ StartTimeout

StartSpec == StartInit /\ [][StartNext]_vars

\* ------------------------------------------------- Kill, step by step
\* The hypervisor as the machine of this call sees it.
DrvHost ==
    Host({dMach.MachineName}, {dMach.MachineName},
         IF dRunning THEN {dMach.MachineName} ELSE {})

\* Lines 806-811: virsh destroy (it fails on a domain that is not running);
\* on failure return its error. The domain is gone at once or a while later.
KillCall ==
    /\ dCallerPc = "destroy"
    /\ dCmds' = dCmds \cup {"destroy"}
    /\ \E cmdOk \in (IF dRunning THEN BOOLEAN ELSE {FALSE}) :
          IF cmdOk
          THEN /\ dRunning' \in BOOLEAN
               /\ dCallerPc' = "select" /\ dGoPc' = "poll" /\ dRet' = dRet
          ELSE /\ dCallerPc' = "returned" /\ dRet' = Err("kill", 0)
               /\ UNCHANGED <<dRunning, dGoPc>>
    /\ UNCHANGED <<orchVars, bootVars, cloneVars, convVars, lifeVars, dMach, dTimer,
                   dSshAddr, dObserved>>

\* The destroyed domain leaves the hypervisor's running list.
KillDomainStops ==
    /\ dGoPc # "none" /\ dRunning
    /\ dRunning' = FALSE
    /\ UNCHANGED <<orchVars, bootVars, cloneVars, convVars, lifeVars, dMach, dCallerPc,
                   dRet, dGoPc, dTimer, dCmds, dSshAddr, dObserved>>

\* Lines 817-823: one round of the liveness loop.
KillPoll ==
    /\ dGoPc = "poll"
    /\ dCmds' = dCmds \cup {"list"}
    /\ \E listOk \in BOOLEAN :
          IF ~IsRunning(dMach, DrvHost, listOk)
          THEN /\ dGoPc' = "send"
               /\ dObserved' = (listOk /\ ~dRunning)
          ELSE UNCHANGED <<dGoPc, dObserved>>
    /\ UNCHANGED <<orchVars, bootVars, cloneVars, convVars, lifeVars, dMach, dRunning,
                   dCallerPc, dRet, dTimer, dSshAddr>>

\* Lines 818 and 827-829: the unbuffered send meets the caller's receive.
KillSend ==
    /\ dGoPc = "send" /\ dCallerPc = "select"
    /\ dGoPc' = "exited"
    /\ dCallerPc' = "returned" /\ dRet' = NoErr
    /\ UNCHANGED <<orchVars, bootVars, cloneVars, convVars, lifeVars, dMach, dRunning,
                   dTimer, dCmds, dSshAddr, dObserved>>

\* Line 825: the one-minute timer fires.
KillTimerFire ==
    /\ dCallerPc = "select" /\ ~dTimer
    /\ dTimer' = TRUE
    /\ UNCHANGED <<orchVars, bootVars, cloneVars, convVars, lifeVars, dMach, dRunning,
                   dCallerPc, dRet, dGoPc, dCmds, dSshAddr, dObserved>>

\* Lines 830-831.
KillTimeout ==
    /\ dCallerPc = "select" /\ dTimer
    /\ dCallerPc' = "returned" /\ dRet' = Err("killtimeout", 0)
    /\ UNCHANGED <<orchVars, bootVars, cloneVars, convVars, lifeVars, dMach, dRunning,
                   dGoPc, dTimer, dCmds, dSshAddr, dObserved>>

\* A machine that Start has returned nil for, running or already stopped.
KillInit ==
    /\ ReadyBatch(1, 0, FALSE) /\ BootIdle /\ ConvIdle /\ LifeIdle /\ CloneIdle
    /\ \E b \in 0 .. MaxId, i \in 0 .. MaxCount - 1 :
       \E a \in Leases(MachineNameOf(b, i)) :
          dMach = [MachineName |-> MachineNameOf(b, i), ip |-> a,
                   internalip |-> a, dockerHost |-> Endpoint(a)]
    /\ dRunning \in BOOLEAN /\ dCallerPc = "destroy" /\ dRet = NoErr
    /\ dGoPc = "none" /\ dTimer = FALSE /\ dCmds = {} /\ dSshAddr = dMach.ip
    /\ dObserved = FALSE

KillNext ==
    \/ KillCall
    \/ KillDomainStops
    \/ KillPoll
    \/ KillSend
    \/ KillTimerFire
    \/ KillTimeout

KillSpec == KillInit /\ [][KillNext]_vars

\* ------------------------------- the driver's operations, called by the owner
\* The call of operation op on machine i returned: r.m is the machine and
\* r.h the hypervisor after it; saw is what its IsRunning returned, failed
\* the commands that exited non-zero, inner the error of the Kill or Stop it
\* called.
LifeCall(op, i, saw, failed, inner, r) ==
    /\ ncalls < MaxCalls
    /\ ncalls' = ncalls + 1
    /\ lastCall' = [op |-> op, idx |-> i, saw |-> saw, err |-> r.err,
                    cmds |-> r.cmds, failed |-> failed, inner |-> inner]
    /\ vm' = [vm EXCEPT ![i] = r.m]
    /\ disks' = r.h.disks
    /\ domains' = r.h.domains
    /\ running' = r.h.running
    /\ UNCHANGED <<bootVars, convVars, drvVars, cloneVars, envVars, pc, id, index,
                   nmachines, err, rb, taskVars, callerVars, panicked, removeLog>>

\* The commands of a Kill with outcome o that exit non-zero: virsh destroy,
\* or the virsh list of a poll.
KillFailed(m, h, o) ==
    IF Kill(m, h, o).err.kind = "kill" THEN {"destroy"}
    ELSE IF o = "listFail" THEN {"list"} ELSE {}

\* Lines 744-766.
LifeRemove(i) ==
    \E in \in RemoveInputs :
       LET h == Host(disks, domains, running)
           saw == ~preserve /\ IsRunning(vm[i], h, in.listOk)
           r == Remove(vm[i], h, preserve, in)
       IN  LifeCall("Remove", i, saw,
                    IF preserve THEN {}
                    ELSE (IF in.listOk THEN {} ELSE {"list"})
                         \cup (IF saw THEN KillFailed(vm[i], h, in.kill) ELSE {})
                         \cup (IF r.err # NoErr THEN {"undefine"} ELSE {}),
                    IF saw THEN Kill(vm[i], h, in.kill).err ELSE NoErr,
                    r)

\* Lines 769-790.
LifeRemoveAndPreserveDisk(i) ==
    \E in \in PreserveInputs :
       LET h == Host(disks, domains, running)
           saw == ~preserve /\ IsRunning(vm[i], h, in.listOk)
           r == RemoveAndPreserveDisk(vm[i], h, preserve, in)
           stop == IF saw THEN Stop(vm[i], h, in.stop).err ELSE NoErr
       IN  LifeCall("RemoveAndPreserveDisk", i, saw,
                    IF preserve THEN {}
                    ELSE (IF in.listOk THEN {} ELSE {"list"})
                         \cup (IF stop # NoErr THEN {"shutdown"} ELSE {})
                         \cup (IF r.err # NoErr THEN {"undefine"} ELSE {}),
                    stop, r)

\* Lines 793-801.
LifeStop(i) ==
    \E o \in StopOutcomes :
       LET r == Stop(vm[i], Host(disks, domains, running), o)
       IN  LifeCall("Stop", i, FALSE,
                    IF r.err # NoErr THEN {"shutdown"} ELSE {}, NoErr,
                    [err |-> r.err, m |-> vm[i], h |-> r.h,
                     cmds |-> <<"shutdown">>])

\* Lines 805-834.
LifeKill(i) ==
    \E o \in KillOutcomes :
       LET h == Host(disks, domains, running)
           r == Kill(vm[i], h, o)
       IN  LifeCall("Kill", i, FALSE, KillFailed(vm[i], h, o), NoErr,
                    [err |-> r.err, m |-> vm[i], h |-> r.h,
                     cmds |-> IF r.err.kind = "kill" THEN <<"destroy">>
                              ELSE KillCmds(o)])

\* A batch that NewVirshMachines has returned, with or without the override.
LifeInit ==
    /\ \E n \in 1 .. MaxCount, b \in 0 .. MaxId, keep \in BOOLEAN :
          ReadyBatch(n, b, keep)
    /\ BootIdle /\ ConvIdle /\ DrvIdle /\ LifeIdle /\ CloneIdle

LifeNext ==
    \/ \E i \in Indexes : LifeRemove(i)
    \/ \E i \in Indexes : LifeRemoveAndPreserveDisk(i)
    \/ \E i \in Indexes : LifeStop(i)
    \/ \E i \in Indexes : LifeKill(i)

LifeSpec == LifeInit /\ [][LifeNext]_vars

\* --------------------------------------------- cloneDisk, step by step
Batches == 1 .. MaxBatches
\* Every name a batch can give a machine.
AllNames == {MachineNameOf(b, i) : b \in 0 .. MaxId, i \in 0 .. MaxCount - 1}

\* Lines 656-660: os.Stat of the clone's file name; a file that is there
\* ends cloneDisk with an error.
CloneStat(b) ==
    /\ qPc[b] = "stat"
    /\ IF qMach[b].MachineName \in qDisks
       THEN /\ qPc' = [qPc EXCEPT ![b] = "failed"]
            /\ qErr' = [qErr EXCEPT ![b] = Err("clone", qMach[b].MachineName.index)]
       ELSE /\ qPc' = [qPc EXCEPT ![b] = "create"]
            /\ qErr' = qErr
    /\ UNCHANGED <<orchVars, bootVars, convVars, drvVars, lifeVars, qDisks, qMach,
                   qCreated>>

\* Lines 662-670: qemu-img create writes the file, over one that is there;
\* exit status 0 sets m.DiskPath.
CloneCreate(b) ==
    /\ qPc[b] = "create"
    /\ \E cmdOk \in BOOLEAN :
          IF cmdOk
          THEN /\ qDisks' = qDisks \cup {qMach[b].MachineName}
               /\ qCreated' = [qCreated EXCEPT ![qMach[b].MachineName] = @ + 1]
               /\ qMach' = [qMach EXCEPT ![b].DiskPath = qMach[b].MachineName]
               /\ qPc' = [qPc EXCEPT ![b] = "done"]
               /\ qErr' = qErr
          ELSE /\ qPc' = [qPc EXCEPT ![b] = "failed"]
               /\ qErr' = [qErr EXCEPT ![b] = Err("clone", qMach[b].MachineName.index)]
               /\ UNCHANGED <<qDisks, qCreated, qMach>>
    /\ UNCHANGED <<orchVars, bootVars, convVars, drvVars, lifeVars>>

\* Batches about to clone one machine each, over an image directory that
\* may hold clones left by earlier runs.
CloneInit ==
    /\ ReadyBatch(1, 0, FALSE) /\ BootIdle /\ ConvIdle /\ DrvIdle /\ LifeIdle
    /\ qMach \in [Batches -> {NewMachine(n.id, n.index) : n \in AllNames}]
    /\ qDisks \in SUBSET {qMach[b].MachineName : b \in Batches}
    /\ qPc = [b \in Batches |-> "stat"]
    /\ qErr = [b \in Batches |-> NoErr]
    /\ qCreated = [n \in AllNames |-> 0]

CloneNext ==
    \/ \E b \in Batches : CloneStat(b)
    \/ \E b \in Batches : CloneCreate(b)

CloneSpec == CloneInit /\ [][CloneNext]_vars

\* The scheduler runs every runnable goroutine and the timer fires: no
\* behaviour stops while a step is possible.
FairSpec == Spec /\ WF_vars(Next)

\* ------------------------------------------------------------- properties
Returned == callerPc = "returned"
Verified(i) == tpc[i] \in {"verified", "verifiedWarned", "send", "finished"}
CheckFailed(i) == Verified(i) /\ tres[i] # NoErr
RemovedIdx == {removeLog[k].idx : k \in 1 .. Len(removeLog)}
SerialKinds == {"clone", "define", "start", "starttimeout", "creds"}
PreconditionKinds == {"nodiskdir", "windows", "nobaseimage"}

FirstNonNil(s) ==
    LET ks == {k \in 1 .. Len(s) : s[k] # NoErr}
    IN  IF ks = {} THEN NoErr
        ELSE s[CHOOSE k \in ks : \A j \in ks : k <= j]

\* C1: a call that has returned gave either all linuxCount machines, each
\* with its readiness outcome placed on the channel and nil, and no error,
\* or no machine and an error.
C1_AllOrNothing ==
    Returned =>
      \/ /\ ret.err = NoErr
         /\ Len(ret.machines) = linuxCount
         /\ \A k \in 1 .. Len(ret.machines) :
               /\ tpc[ret.machines[k]] = "finished"
               /\ tres[ret.machines[k]] = NoErr
      \/ /\ ret.err # NoErr
         /\ ret.machines = <<>>

\* C2: when a readiness check of the batch has failed and the call has
\* returned with anything but the deadline's error, Remove has been called
\* and has returned for every machine of the batch.
C2_FailedCheckRemovesAll ==
    (Returned /\ ret.err.kind # "timeout" /\ \E i \in Indexes : CheckFailed(i))
        => RemovedIdx = Indexes

\* C3: when the call has returned the error of a serial step (clone, define,
\* start, credentials), every machine of the batch whose disk was cloned has
\* received a removal call.
C3_SerialFailureRollsBack ==
    (Returned /\ ret.err.kind \in SerialKinds)
        => \A i \in Indexes : vm[i].DiskPath # NoName => i \in RemovedIdx

\* C4: a readiness error returned to the caller is the first non-nil outcome
\* in the order the outcomes were placed on the channel, and is the outcome
\* of the machine it names; if exactly one check failed it is that one's.
C4_FirstObservedError ==
    (Returned /\ ret.err.kind = "readiness") =>
        /\ ret.err = FirstNonNil(sent)
        /\ CheckFailed(ret.err.idx) /\ tres[ret.err.idx] = ret.err
        /\ \A i \in Indexes :
              {j \in Indexes : CheckFailed(j)} = {i} => ret.err = tres[i]

\* The single failing check is machine 0's and machine 1's nil outcome was
\* placed on the channel before it.
C4_Witness ==
    /\ Returned /\ ret.err = Err("readiness", 0)
    /\ Len(sent) = 2 /\ sent[1] = NoErr /\ tres[1] = NoErr

\* C5: once the rollback has begun the pending error stays the readiness
\* error that started it, whatever the removals return; when the goroutine
\* is ready to report, Remove has been called once for every machine in
\* index order; a caller that returns after a rollback began never receives
\* a removal error.
C5_RollbackBestEffort ==
    /\ (pc \in {"rollback", "sendErr"} /\ (pc = "rollback" \/ removeLog # <<>>))
          => (err.kind = "readiness" /\ tres[err.idx] = err)
    /\ (pc = "sendErr" /\ err.kind = "readiness")
          => [k \in 1 .. Len(removeLog) |-> removeLog[k].idx]
                 = [k \in 1 .. linuxCount |-> k - 1]
    /\ (Returned /\ removeLog # <<>>) => ret.err.kind \in {"readiness", "timeout"}

\* A removal failed, a later machine was still removed, and the caller got
\* the readiness error.
C5_Witness ==
    /\ Returned /\ ret.err.kind = "readiness"
    /\ \E k \in 1 .. Len(removeLog) :
          removeLog[k].err # NoErr /\ k < Len(removeLog)
             /\ removeLog[k + 1].err = NoErr

\* C6: a call that has passed its preconditions returns to its caller: with
\* a result, with an error, or at the latest with the deadline's error.
C6_ReturnsByDeadline == (callerPc = "select") ~> Returned

\* What the select of lines 643-652 does guarantee: the call returns unless
\* the process has died, and a return on the timer gives no machine and
\* leaves the creation goroutine where it was.
ReturnsUnlessPanicked == (callerPc = "select") ~> (Returned \/ panicked)
TimeoutLeavesWorkRunning ==
    [][(callerPc = "select" /\ Returned' /\ ret'.err.kind = "timeout")
          => (timerFired /\ ret'.machines = <<>>
                /\ UNCHANGED <<workerVars, taskVars, hostVars>>)]_vars

\* C7: with a failed precondition nothing is ever cloned, defined, started
\* or spawned, and the call returns an error and no machine.
PreconditionFails == ~VirshDiskDir \/ windowsCount # 0 \/ ~baseOS
C7_PreconditionsFailFast ==
    PreconditionFails =>
        /\ pc = "idle" /\ nmachines = 0
        /\ disks = {} /\ domains = {} /\ running = {}
        /\ \A i \in Indexes : tpc[i] = "idle" /\ vm[i] = BlankMachine
        /\ callerPc \in {"entry", "returned"}
        /\ Returned => (ret.err.kind \in PreconditionKinds /\ ret.machines = <<>>)

\* The call returned on a Windows count alone.
C7_Witness ==
    /\ Returned /\ VirshDiskDir /\ baseOS /\ windowsCount # 0
    /\ ret.err.kind = "windows"


\* C8: a completed bootstrap has issued, in this order and nothing else:
\* one SwarmInit on machines[0] advertising its internal IP, which returned
\* successfully; one SwarmInspect and one Info; then for each of machines
\* 1..M-1 in turn one SwarmJoin carrying the token and the address those two
\* fetches returned.
JoinEvents ==
    [n \in 1 .. 2 * (NumMachines - 1) |->
        IF n % 2 = 1
        THEN Ev("join", "call", (n + 1) \div 2, swarmToken, remoteAddr, NoIP)
        ELSE Returns("join", "ok", n \div 2)]
C8_BootstrapCalls ==
    bpc = "complete" =>
        /\ swarmToken # 0 /\ remoteAddr # NoIP
        /\ trace = << Ev("init", "call", 0, 0, NoIP, Machine(0).ip),
                      Returns("init", "ok", 0),
                      Ev("inspect", "ok", 0, swarmToken, NoIP, NoIP),
                      Ev("info", "ok", 0, 0, remoteAddr, NoIP) >> \o JoinEvents

\* A bootstrap over three machines has completed.
C8_Witness == bpc = "complete" /\ NumMachines = 3 /\ members = {0, 1, 2}

\* C9: the bootstrap moves unstarted -> leader-initialized ->
\* workers-joining(k) -> complete; a join is in flight only when every
\* earlier worker has joined, at most one at a time; the number of joined
\* workers grows by one per successful join and never shrinks; complete
\* means all M-1 workers joined; failed is never left.
JoinsInFlight == {c \in inflight : c.op = "join"}
BootPhase ==
    CASE bpc \in {"unstarted", "init", "initWait"} -> "unstarted"
      [] bpc \in {"inspect", "info"} -> "leader-initialized"
      [] bpc \in {"join", "joinWait"} -> "workers-joining"
      [] OTHER -> bpc
PhaseSteps ==
    { <<"unstarted", "leader-initialized">>, <<"unstarted", "skipped">>,
      <<"leader-initialized", "workers-joining">>,
      <<"leader-initialized", "complete">>,
      <<"workers-joining", "complete">>,
      <<"unstarted", "failed">>, <<"leader-initialized", "failed">>,
      <<"workers-joining", "failed">> }
C9_StateInv ==
    /\ Cardinality(JoinsInFlight) <= 1
    /\ \A c \in JoinsInFlight : members = 0 .. (c.m - 1)
    /\ bpc \in {"join", "joinWait"} => members = 0 .. (worker - 1)
    /\ bpc = "complete" => (members = 0 .. (NumMachines - 1) /\ inflight = {})
C9_Step ==
    /\ BootPhase' = BootPhase \/ <<BootPhase, BootPhase'>> \in PhaseSteps
    /\ members \subseteq members'
    /\ Cardinality(members') <= Cardinality(members) + 1
    /\ (BootPhase = "workers-joining" /\ members' # members)
          => (bpc = "joinWait" /\ members' = members \cup {worker}
                /\ worker' = worker + 1)
    /\ worker' \in {worker, worker + 1}
    /\ worker' # worker => members' = members \cup {worker}
C9_SequentialJoins == [](C9_StateInv) /\ [][C9_Step]_vars

\* The join of the second worker is in flight after the first has joined.
C9_Witness ==
    /\ bpc = "joinWait" /\ worker = 2 /\ members = {0, 1}
    /\ \E c \in inflight : c.op = "join" /\ c.m = 2

\* C10: a failed bootstrap returns the error of the one call that failed,
\* which is the last thing it did; no call was issued twice, no join was
\* issued beyond the failing machine, the machines that joined are still
\* members, nothing but client, init, inspect, info and join was called,
\* and no machine, domain or disk was touched; once failed, nothing more
\* happens.
Fails == {n \in 1 .. Len(trace) : trace[n].ph = "fail"}
Calls == {n \in 1 .. Len(trace) : trace[n].ph = "call"}
C10_FailedInv ==
    bpc = "failed" =>
        /\ Fails = {Len(trace)}
        /\ berr = Err(trace[Len(trace)].op, trace[Len(trace)].m)
        /\ \A a, b \in Calls :
              (trace[a].op = trace[b].op /\ trace[a].m = trace[b].m) => a = b
        /\ \A n \in 1 .. Len(trace) :
              /\ trace[n].op \in {"client", "init", "inspect", "info", "join"}
              /\ trace[n].m <= berr.idx
        /\ members = {trace[n].m : n \in {x \in 1 .. Len(trace) :
                          trace[x].ph = "ok" /\ trace[x].op \in {"init", "join"}}}
        /\ inflight = {}
C10_Step ==
    /\ UNCHANGED <<disks, domains, running, vm, removeLog>>
    /\ bpc = "failed" => UNCHANGED <<bpc, berr, trace, members, inflight, worker>>
C10_FailureAborts == [](C10_FailedInv) /\ [][C10_Step]_vars

\* The join of the second worker failed after the first had joined.
C10_Witness ==
    /\ bpc = "failed" /\ berr = Err("join", 2) /\ members = {0, 1}

\* --------------------------------------------------------------- names
Named(i) == vm[i].MachineName # NoName

\* C12: the names generated for a batch are pairwise distinct and all carry
\* the one identifier drawn for the batch, and a machine's name stays what it
\* was at creation until a successful removal clears it.
C12_NamesInv ==
    /\ \A i \in Indexes : Named(i) => vm[i].MachineName = MachineNameOf(id, i)
    /\ \A i \in Indexes : Named(i) => vm[i].MachineName.id = id
    /\ \A i, j \in Indexes :
          (i # j /\ Named(i) /\ Named(j)) => vm[i].MachineName # vm[j].MachineName
C12_NameStep ==
    \A i \in Indexes :
       Named(i) =>
          \/ vm'[i].MachineName = vm[i].MachineName
          \/ /\ vm'[i].MachineName = NoName
             /\ removeLog' = Append(removeLog, [idx |-> i, err |-> NoErr])
C12_NamesDistinctAndStable == []C12_NamesInv /\ [][C12_NameStep]_vars

\* Two machines of one batch hold their generated names.
C12_Witness ==
    /\ linuxCount = 2 /\ nmachines = 2
    /\ vm[0].MachineName = MachineNameOf(id, 0)
    /\ vm[1].MachineName = MachineNameOf(id, 1)

\* ------------------------------------------------ fan-out and collection
\* C17: the outcomes are inspected only after every readiness task has put
\* its outcome on the channel: no task sends on the closed channel, the
\* channel is closed only when every outcome is in it or already read, and
\* it never holds more than the batch size.
C17_OutcomesBeforeInspection ==
    /\ ~panicked
    /\ chanClosed => \A i \in Indexes : tpc[i] = "finished"
    /\ Len(machineErrChan) <= linuxCount

\* -------------------------------------------------------- the serial phase
InSerialPhase == pc \in {"clone", "define", "start", "creds"}
StartedOk(j) ==
    /\ vm[j].MachineName = MachineNameOf(id, j)
    /\ vm[j].DiskPath = vm[j].MachineName
    /\ vm[j].ip # NoIP
    /\ vm[j].MachineName \in disks
    /\ vm[j].MachineName \in domains
    /\ vm[j].MachineName \in running
C18_SerialInv ==
    /\ InSerialPhase =>
          /\ err = NoErr /\ index \in Indexes /\ nmachines = index
          /\ \A j \in Indexes : j < index => StartedOk(j)
          /\ \A j \in Indexes : j > index => vm[j] = BlankMachine
    /\ pc = "clone" => vm[index] = BlankMachine
    /\ pc = "define" =>
          /\ MachineNameOf(id, index) \in disks
          /\ MachineNameOf(id, index) \notin domains
    /\ pc = "start" =>
          /\ MachineNameOf(id, index) \in disks \cap domains
          /\ MachineNameOf(id, index) \notin running
    /\ pc = "creds" => StartedOk(index)
    /\ (\E i \in Indexes : tpc[i] # "idle") =>
          /\ ~InSerialPhase /\ nmachines = linuxCount
          /\ \A j \in Indexes : vm[j].DiskPath # NoName /\ vm[j].ip # NoIP
    /\ err.kind \in SerialKinds =>
          /\ pc \in {"sendErr", "done"}
          /\ \A i \in Indexes : tpc[i] = "idle"
C18_AfterFailure ==
    err.kind \in SerialKinds => UNCHANGED <<hostVars, vm, nmachines>>

\* C18: clone, define and start run one machine at a time and stop at the
\* first failure: machine i+1 is cloned only after machine i was cloned,
\* defined and started, no later machine has been touched while one is in
\* these steps, no readiness task exists before all were started, and after
\* a failed step the hypervisor and the machines are left as they are.
C18_SerialAndAbort == []C18_SerialInv /\ [][C18_AfterFailure]_vars

\* The clone of the second machine is about to begin.
C18_Witness == pc = "clone" /\ index = 1 /\ StartedOk(0)

\* ------------------------------------------------------- convergence poll
Converges == cFirstOk # 0 /\ (cFirstOk - 1) * cInterval < cDeadline

\* C11: with a predicate that first succeeds on its k-th invocation the wait
\* returns success when (k-1) x interval is before the deadline, then at a
\* time from (k-1) x interval on and before the deadline; otherwise it
\* returns the cancellation error or the last predicate error; and the
\* predicate is never invoked again once it has succeeded.
C11_ConvergeContract ==
    /\ cFirstOk # 0 => cCalls <= cFirstOk
    /\ (cPc = "returned" /\ Converges) =>
          /\ cRet = NoErr /\ cCalls = cFirstOk
          /\ cNow >= (cFirstOk - 1) * cInterval /\ cNow < cDeadline
    /\ (cPc = "returned" /\ ~Converges) =>
          /\ cRet # NoErr
          /\ cRet \in {Err("cancelled", cCalls), cLastErr}

\* The predicate succeeded on its third invocation, two intervals in.
C11_Witness ==
    /\ cPc = "returned" /\ cRet = NoErr /\ cFirstOk = 3 /\ cCalls = 3
    /\ cNow = 2 * cInterval

\* ------------------------------------------------------------------ Start
StartReturned(e) == dCallerPc = "returned" /\ dRet = e

\* C13: Start returns success only when the address was parsed and stored as
\* ip, internal ip and engine endpoint and `uptime` then succeeded against
\* it; a Start that returns without both phases done returns an error, the
\* timeout error only after the timer fired, and then the machine runs and
\* no stop, destroy or removal command was issued.
C13_StartPhases ==
    /\ StartReturned(NoErr) =>
          /\ dMach.ip \in Leases(dMach.MachineName)
          /\ dMach.internalip = dMach.ip
          /\ dMach.dockerHost = Endpoint(dMach.ip)
          /\ dSshAddr = dMach.ip
          /\ dGoPc = "exited"
    /\ (dCallerPc = "returned" /\ dGoPc \notin {"send", "exited"}) =>
          dRet # NoErr
    /\ StartReturned(Err("starttimeout", 0)) =>
          /\ dTimer /\ dRunning
          /\ dCmds \subseteq {"start", "domifaddr", "ssh uptime"}
    /\ dSshAddr # NoIP =>
          /\ dSshAddr = dMach.ip /\ dMach.internalip = dMach.ip
          /\ dMach.dockerHost = Endpoint(dMach.ip)

\* Start returned success for a machine with its address stored.
C13_Witness ==
    /\ StartReturned(NoErr) /\ dMach.ip # NoIP /\ dSshAddr = dMach.ip
    /\ dCmds = {"start", "domifaddr", "ssh uptime"}

\* ------------------------------------------------------------------- Kill
KillReturned(e) == dCallerPc = "returned" /\ dRet = e

\* C14: Kill returns success only after a poll issued after the destroy has
\* seen the machine missing from the hypervisor's running list; a failed
\* destroy is returned without any poll; the timeout error is returned only
\* after the timer fired.
C14_KillConfirmsStop ==
    /\ KillReturned(NoErr) => dObserved /\ "list" \in dCmds
    /\ KillReturned(Err("kill", 0)) => "list" \notin dCmds /\ dGoPc = "none"
    /\ KillReturned(Err("killtimeout", 0)) => dTimer

\* What does hold of a nil return: a poll's IsRunning said "not running".
KillReturnsAfterPoll ==
    /\ KillReturned(NoErr) => dGoPc = "exited" /\ "list" \in dCmds
    /\ KillReturned(Err("kill", 0)) => "list" \notin dCmds /\ dGoPc = "none"
    /\ KillReturned(Err("killtimeout", 0)) => dTimer

\* ---------------------------------------------------------------- removal
Removals == {"Remove", "RemoveAndPreserveDisk"}
\* The step is the return of a call of op on machine i.
Called(op, i) ==
    ncalls' = ncalls + 1 /\ lastCall'.op = op /\ lastCall'.idx = i

C15_Step ==
    \A i \in Indexes :
       /\ \A op \in Removals :
             Called(op, i) =>
                /\ (lastCall'.err = NoErr /\ ~preserve) =>
                      vm'[i].MachineName = NoName
                /\ lastCall'.err # NoErr =>
                      /\ vm'[i] = vm[i]
                      /\ disks' = disks
       /\ vm'[i].MachineName # vm[i].MachineName =>
             /\ vm'[i].MachineName = NoName
             /\ \E op \in Removals : Called(op, i)
             /\ lastCall'.err = NoErr /\ ~preserve
       /\ vm[i].MachineName = NoName => vm'[i].MachineName = NoName

\* C15: a machine's name is cleared exactly by a removal that returns nil
\* without the override, and once cleared stays cleared; a removal whose
\* unregister command fails returns the error and leaves the machine's name
\* and its disk as they were.
C15_NameClearedOnSuccess == [][C15_Step]_vars

\* A removal has failed on a machine that keeps its name and its disk, and
\* another machine was removed.
C15_Witness ==
    /\ lastCall.op \in Removals /\ lastCall.err # NoErr
    /\ vm[lastCall.idx].MachineName # NoName
    /\ vm[lastCall.idx].DiskPath \in disks
    /\ \E j \in Indexes : vm[j].MachineName = NoName

\* C16: Remove on a machine whose name is already cleared returns (nil under
\* the override, the unregister error otherwise) without a panic and changes
\* nothing: no machine, domain, disk or running state is touched.
C16_Step ==
    \A i \in Indexes :
       (Called("Remove", i) /\ vm[i].MachineName = NoName) =>
          /\ lastCall'.err = IF preserve THEN NoErr ELSE Err("remove", -1)
          /\ "destroy" \notin {lastCall'.cmds[c] : c \in 1 .. Len(lastCall'.cmds)}
          /\ ~panicked'
          /\ UNCHANGED <<vm, disks, domains, running>>
C16_RemoveTwiceHarmless == [][C16_Step]_vars

\* Remove has failed on a machine removed before, whose disk was preserved,
\* next to a machine that is still running.
C16_Witness ==
    /\ ncalls >= 2 /\ lastCall.op = "Remove" /\ lastCall.err = Err("remove", -1)
    /\ vm[lastCall.idx].MachineName = NoName
    /\ vm[lastCall.idx].DiskPath \in disks
    /\ \E j \in Indexes : vm[j].MachineName \in running

\* The commands of the call that has just returned, and their order.
CmdsOf(c) == {c.cmds[n] : n \in 1 .. Len(c.cmds)}
Precedes(a, b, c) ==
    \A n1, n2 \in 1 .. Len(c.cmds) :
       (c.cmds[n1] = a /\ c.cmds[n2] = b) => n1 < n2

\* What a removal does after IsRunning has answered `found`.
RemovalSteps(found) ==
    \A i \in Indexes :
       /\ (Called("Remove", i) /\ ~preserve) =>
             /\ "shutdown" \notin CmdsOf(lastCall')
             /\ "undefine --storage" \in CmdsOf(lastCall')
             /\ found[i] => "destroy" \in CmdsOf(lastCall')
             /\ Precedes("destroy", "undefine --storage", lastCall')
             /\ Precedes("undefine --storage", "rm", lastCall')
             /\ "rm" \in CmdsOf(lastCall') <=> lastCall'.err = NoErr
             /\ disks' # disks =>
                   /\ lastCall'.err = NoErr
                   /\ disks' = disks \ {vm[i].DiskPath}
                   /\ vm[i].MachineName \in domains \ domains'
       /\ (Called("RemoveAndPreserveDisk", i) /\ ~preserve) =>
             /\ CmdsOf(lastCall') \subseteq {"list", "shutdown", "undefine"}
             /\ "undefine" \in CmdsOf(lastCall')
             /\ found[i] => "shutdown" \in CmdsOf(lastCall')
             /\ Precedes("shutdown", "undefine", lastCall')
             /\ lastCall'.err = NoErr => vm[i].MachineName \in domains \ domains'
       /\ Called("RemoveAndPreserveDisk", i) => disks' = disks

\* C19: Remove force-destroys a running machine, unregisters it and deletes
\* the disk only after the unregister succeeded; RemoveAndPreserveDisk shuts
\* a running machine down gracefully, unregisters it and never deletes the
\* disk.
C19_RemoveVariants ==
    [][RemovalSteps([i \in Indexes |-> vm[i].MachineName \in running])]_vars

\* The same of a machine that the removal's own IsRunning reported running.
RemoveVariantsAsObserved ==
    [][RemovalSteps([i \in Indexes |-> lastCall'.saw])]_vars

C20_Step ==
    \A i \in Indexes : \A op \in Removals :
       (Called(op, i) /\ preserve) =>
          /\ lastCall'.err = NoErr
          /\ lastCall'.cmds = <<>>
          /\ UNCHANGED <<vm, disks, domains, running>>

\* C20: with PRESERVE_TEST_MACHINE set, Remove and RemoveAndPreserveDisk
\* return nil without running any command and leave the machine's running
\* state, domain, disk and name as they were.
C20_OverrideKeepsMachines == [][C20_Step]_vars

\* Under the override Remove has returned nil for a machine that still runs.
C20_Witness ==
    /\ preserve /\ lastCall.op = "Remove" /\ lastCall.err = NoErr
    /\ vm[lastCall.idx].MachineName \in running \cap domains
    /\ vm[lastCall.idx].DiskPath \in disks

\* A batch rolled back under the override keeps every machine it created.
RollbackUnderOverrideKeepsAll ==
    (preserve /\ removeLog # <<>>) =>
       \A i \in Indexes :
          /\ vm[i].MachineName = MachineNameOf(id, i)
          /\ vm[i].MachineName \in disks \cap domains \cap running

\* ------------------------------------------------------ readiness outcome
ReadinessOutcomes(i) == {NoErr, Err("readiness", i)}
C25_Inv ==
    /\ \A i \in Indexes : tres[i] \in ReadinessOutcomes(i)
    /\ \A n \in 1 .. Len(sent) : \E i \in Indexes : sent[n] \in ReadinessOutcomes(i)
    /\ err.kind # "hostname"
C25_Step ==
    \A i \in Indexes :
       /\ (tpc[i] = "spawned" /\ tpc'[i] # "spawned") =>
             /\ tpc'[i] \in {"hostnameSet", "hostnameWarned"}
             /\ UNCHANGED <<tres, machineErrChan, sent, err, rb, pc, removeLog>>
       /\ (tpc[i] = "hostnameWarned" /\ tpc'[i] # "hostnameWarned") =>
             tpc'[i] = "verifiedWarned"
       /\ (tpc[i] = "send" /\ tpc'[i] = "finished") =>
             /\ sent' = Append(sent, tres[i])
             /\ machineErrChan' = Append(machineErrChan, tres[i])

\* C25: what a readiness goroutine puts on the channel is the result of its
\* engine verification and nothing else: a failed hostname command changes
\* no outcome, channel or rollback state, and the verification of that
\* machine runs after it.
C25_OutcomeIsVerification == []C25_Inv /\ [][C25_Step]_vars

\* The hostname command of a machine failed, its engine verification then
\* passed, and nil is the outcome it holds.
C25_Witness ==
    \E i \in Indexes : tpc[i] = "verifiedWarned" /\ tres[i] = NoErr

\* ------------------------------------------------------------- cloneDisk
\* C22: no clone file is created twice under one name, and no two machines
\* have the same disk path, also when concurrent batches derive one name.
C22_NoDiskTwice ==
    /\ \A n \in DOMAIN qCreated : qCreated[n] <= 1
    /\ \A b1, b2 \in DOMAIN qMach :
          (b1 # b2 /\ qMach[b1].DiskPath # NoName) =>
             qMach[b1].DiskPath # qMach[b2].DiskPath

\* What does hold: a cloneDisk that finds the file fails, and a failing
\* cloneDisk leaves the files and the machine's disk path as they were.
CloneFailureLeavesDisk ==
    [][\A b \in DOMAIN qPc :
          /\ (qPc[b] = "stat" /\ qMach[b].MachineName \in qDisks) =>
                qPc'[b] \in {"stat", "failed"}
          /\ (qPc'[b] = "failed" /\ qPc[b] # "failed") =>
                /\ qErr'[b] # NoErr
                /\ UNCHANGED <<qDisks, qMach, qCreated>>]_vars

\* -------------------------------------------------------------- addresses
AddressEmpty ==
    dMach.ip = NoIP /\ dMach.internalip = NoIP /\ dMach.dockerHost = NoEndpoint
AddressComplete ==
    /\ dMach.ip # NoIP /\ dMach.internalip = dMach.ip
    /\ dMach.dockerHost = Endpoint(dMach.ip)
AddressStable ==
    /\ dMach.ip # NoIP => dMach'.ip = dMach.ip
    /\ dMach.internalip # NoIP => dMach'.internalip = dMach.internalip
    /\ dMach.dockerHost # NoEndpoint => dMach'.dockerHost = dMach.dockerHost

\* C23, as stated: ip, internal ip and engine endpoint are empty before the
\* address is parsed, are set together in one step, so that in every state
\* all three are empty or all three hold the one address, and never change
\* once set.
C23_AddressSetTogether ==
    /\ [](AddressEmpty \/ AddressComplete)
    /\ [](dGoPc \in {"none", "addr"} => AddressEmpty)
    /\ [][AddressStable]_vars

\* C23, amended: the three are empty before the address is parsed, are set
\* one after the other to the one address before `uptime` is first tried, so
\* that a Start that returns nil has all three, and never change once set.
C23_AddressSetBeforeReady ==
    /\ [](dGoPc \in {"none", "addr"} => AddressEmpty)
    /\ [](dMach.internalip \in {NoIP, dMach.ip})
    /\ [](dMach.dockerHost \in {NoEndpoint, Endpoint(dMach.ip)})
    /\ [](dGoPc \in {"uptime", "send", "exited"} => AddressComplete)
    /\ [](StartReturned(NoErr) => AddressComplete)
    /\ [][AddressStable]_vars

\* Start returned nil for a machine that holds its second possible lease in
\* all three fields.
C23_Witness ==
    /\ StartReturned(NoErr) /\ AddressComplete
    /\ dMach.ip = AddrOf(dMach.MachineName) + MaxCount

\* Every machine a readiness goroutine was started for, and every machine
\* returned to the caller, has its address, which no later step changes.
HandedMachinesHaveAddress ==
    /\ [](\A i \in Indexes : tpc[i] # "idle" => vm[i].ip = AddrOf(MachineNameOf(id, i)))
    /\ [][\A i \in Indexes : vm[i].ip # NoIP => vm'[i].ip = vm[i].ip]_vars

\* ------------------------------------------------- work left by a timeout
Abandoned == Returned /\ ret.err.kind = "timeout"

\* C24: the timer branch of NewVirshMachines returns without stopping the
\* creation goroutine: the return itself changes nothing of the goroutines
\* or the hypervisor, the creation goroutine never ends afterwards, and once
\* it has reached its send on errChan or resChan it stays there for good.
C24_TimeoutAbandonsWork ==
    /\ [][(callerPc = "select" /\ Abandoned') =>
             (timerFired /\ UNCHANGED <<workerVars, taskVars, hostVars>>)]_vars
    /\ [](Abandoned => pc \notin {"idle", "done"})
    /\ [][(Abandoned /\ pc \in {"sendErr", "sendRes"}) =>
             UNCHANGED <<workerVars, hostVars>>]_vars

\* The caller has its timeout error and the creation goroutine is about to
\* start a machine.
C24_Witness == Abandoned /\ pc = "start" /\ ~panicked

\* After the timeout error the creation goroutine can also be about to remove
\* machines, and a readiness goroutine about to verify one.
AbandonedCanRemove == Abandoned /\ pc = "rollback" /\ ~panicked
AbandonedCanVerify ==
    Abandoned /\ ~panicked /\ \E i \in Indexes : tpc[i] = "hostnameSet"
AbandonedBlocked == Abandoned /\ pc \in {"sendErr", "sendRes"} /\ ~panicked

\* The same of one Start or Kill: after the timeout error its polling
\* goroutine is still there, and at its send it stays.
PollerTimedOut ==
    dCallerPc = "returned" /\ dRet.kind \in {"starttimeout", "killtimeout"}
PollerAbandoned ==
    /\ [](PollerTimedOut => dGoPc \notin {"none", "exited"})
    /\ [][(PollerTimedOut /\ dGoPc = "send") =>
             UNCHANGED <<dGoPc, dCallerPc, dRet, dMach>>]_vars
PollerBlocked == PollerTimedOut /\ dGoPc = "send"

\* ------------------------------------------------------- failed commands
DriverOps == {"Remove", "RemoveAndPreserveDisk", "Stop", "Kill"}

\* C21: a command that exits non-zero ends the operation that ran it with an
\* error: no operation returns nil after one of its commands failed, a
\* removal whose list query failed runs nothing after it, and a Remove whose
\* Kill returned an error does not go on to unregister.
C21_FailuresAbort ==
    [][\A i \in Indexes : \A op \in DriverOps :
          Called(op, i) =>
             /\ lastCall'.failed # {} => lastCall'.err # NoErr
             /\ (op \in Removals /\ "list" \in lastCall'.failed) =>
                   lastCall'.cmds = <<"list">>
             /\ (op = "Remove" /\ lastCall'.inner # NoErr) =>
                   "undefine --storage" \notin CmdsOf(lastCall')]_vars

\* What does hold: a failed virsh shutdown, destroy or undefine is returned
\* by Stop, by Kill and by the removals, with nothing run after it.
DirectFailuresReturned ==
    [][\A i \in Indexes :
          /\ (Called("Stop", i) /\ "shutdown" \in lastCall'.failed) =>
                lastCall'.err # NoErr
          /\ (Called("Kill", i) /\ "destroy" \in lastCall'.failed) =>
                lastCall'.err # NoErr /\ lastCall'.cmds = <<"destroy">>
          /\ \A op \in Removals :
                (Called(op, i) /\ "undefine" \in lastCall'.failed) =>
                   lastCall'.err # NoErr /\ "rm" \notin CmdsOf(lastCall')]_vars

=============================================================================
